---- MODULE Spec2Model ----
(***************************************************************************)
(* Model of the incremental-connectivity engine of day_8 (Playground):     *)
(* the squared-distance metric, the brute-force neighbour ranker, the      *)
(* union-find forest and the two drivers solution_part_1 / solution_part_2;*)
(* and of the dial of day_1, the range merge of day_5 and the beam rows of *)
(* day_7.                                                                  *)
(*                                                                         *)
(* The specifications of the module:                                       *)
(*   SpecUF      any sequence of find / union / all_connected calls on a   *)
(*               forest built by UnionFind::new(n);                        *)
(*   SpecDriver  runs of solution_part_1 and solution_part_2 on a bounded  *)
(*               point list and budget;                                    *)
(*   LiveDriver  runs of solution_part_2 from its call on, with the        *)
(*               fairness of a sequential program that keeps running       *)
(*               until it returns;                                         *)
(*   SpecDial    move_position and count_zeros calls on the default dial;  *)
(*   SpecRanges  merge_overlapping calls on a vector of ranges;            *)
(*   SpecLab     the rows of solution_part_1 / solution_part_2 of day_7.   *)
(***************************************************************************)
EXTENDS Integers, Sequences, FiniteSets, TLC

\* ------------------------------------------------------------------ bounds
\* Largest forest of SpecUF.
MaxN == 4
\* Longest point list of SpecDriver.
MaxPoints == 5
\* Largest budget (the drivers' parameter n, the ranker's k) of SpecDriver.
MaxK == 7
\* Longest point list and largest budget of LiveDriver.
MaxLivePoints == 4
MaxLiveK == 6

\* Positions the point lists are drawn from (struct Position(u64, u64, u64)).
\* All coordinates are far below the width where the u64 arithmetic of
\* distance and of the part 2 product could overflow.
PositionPool ==
    { <<1, 0, 0>>, <<2, 0, 0>>, <<3, 1, 0>>, <<5, 0, 2>> }

VARIABLES
    uf,        \* struct UnionFind: [parent |-> Vec<usize>, size |-> Vec<usize>]
    op,        \* SpecUF: the last call made on the forest and what it returned
    numbers,   \* SpecDriver: the parsed point list (index 0 .. n-1)
    budget,    \* SpecDriver: the parameter n of solution_part_1/2
    mode,      \* SpecDriver: 0 not started, 1 solution_part_1, 2 solution_part_2
    closest,   \* SpecDriver: closest_neighbors(&numbers, n)
    idx,       \* SpecDriver: number of loop iterations of solution_part_2 done
    pc,        \* SpecDriver: "start", "scan" (inside the for loop), "done"
    result,    \* SpecDriver: the value returned (or the panic raised)
    dial,      \* SpecDial: struct Dial [current_position, size]
    turn,      \* SpecDial: the last call on the dial, what it returned, and
               \*           the sums of the steps moved right and left so far
    ranges,    \* SpecRanges: MultipleRanges.0, the Vec<Range>
    given,     \* SpecRanges: the vector the last merge_overlapping was called on
    lab,       \* SpecLab: the arguments of process_beams_part_1/2 after the call
    entry      \* SpecLab: the same arguments as the call received them

ufVars == <<uf, op>>
driverVars == <<numbers, budget, mode, closest, idx, pc, result>>
dialVars == <<dial, turn>>
rangesVars == <<ranges, given>>
labVars == <<lab, entry>>
vars == <<uf, op, numbers, budget, mode, closest, idx, pc, result,
          dial, turn, ranges, given, lab, entry>>

\* ------------------------------------------------------- Position::distance
abs_diff(a, b) == IF a >= b THEN a - b ELSE b - a

\* Mutant: the differences are summed without being squared.
distance_not_squared(self, other) ==
    abs_diff(self[1], other[1]) + abs_diff(self[2], other[2])
        + abs_diff(self[3], other[3])

distance(self, other) ==
    LET distance_x == abs_diff(self[1], other[1])
        distance_y == abs_diff(self[2], other[2])
        distance_z == abs_diff(self[3], other[3])
    IN  distance_x * distance_x + distance_y * distance_y + distance_z * distance_z

\* --------------------------------------- BruteForceAlgorithm::closest_neighbors
\* Vec indices are 0-based: a point list is a function on 0 .. n-1.
NumPoints(positions) == Cardinality(DOMAIN positions)

\* The inner loop: pairs (first_index, other_index) for other_index from `from` on.
RECURSIVE inner_loop(_, _, _)
inner_loop(positions, first_index, from) ==
    IF from >= NumPoints(positions) THEN <<>>
    ELSE << <<distance(positions[first_index], positions[from]), first_index, from>> >>
         \o inner_loop(positions, first_index, from + 1)

\* Mutant: the inner loop starts at first_index, not behind it.
RECURSIVE outer_loop_with_self_pairs(_, _)
outer_loop_with_self_pairs(positions, first_index) ==
    IF first_index >= NumPoints(positions) THEN <<>>
    ELSE inner_loop(positions, first_index, first_index)
         \o outer_loop_with_self_pairs(positions, first_index + 1)

\* The outer loop: every first_index in order, each followed by its inner loop.
RECURSIVE outer_loop(_, _)
outer_loop(positions, first_index) ==
    IF first_index >= NumPoints(positions) THEN <<>>
    ELSE inner_loop(positions, first_index, first_index + 1)
         \o outer_loop(positions, first_index + 1)

\* Mutant: an unstable sort, e goes in front of the entries of its weight.
RECURSIVE insert_unstable(_, _)
insert_unstable(s, e) ==
    IF s = <<>> THEN <<e>>
    ELSE IF s[Len(s)][1] < e[1] THEN Append(s, e)
    ELSE Append(insert_unstable(SubSeq(s, 1, Len(s) - 1), e), s[Len(s)])

\* Where a stable sort puts e among the already sorted s: behind every entry
\* that does not compare greater (a.0.cmp(&b.0) looks at the weight alone).
RECURSIVE insert_stable(_, _)
insert_stable(s, e) ==
    IF s = <<>> THEN <<e>>
    ELSE IF s[Len(s)][1] <= e[1] THEN Append(s, e)
    ELSE Append(insert_stable(SubSeq(s, 1, Len(s) - 1), e), s[Len(s)])

\* Mutant: the pairs are left in the order they were generated.
sort_by_weight_skipped(s) == s

\* distances.sort_by(|a, b| a.0.cmp(&b.0)): slice::sort_by is a stable sort.
RECURSIVE sort_by_weight(_)
sort_by_weight(s) ==
    IF s = <<>> THEN <<>>
    ELSE insert_stable(sort_by_weight(SubSeq(s, 1, Len(s) - 1)), s[Len(s)])

\* Mutant: the budget is ignored and every pair is returned.
take_everything(s, k) == s

\* into_iter().take(k).collect()
take(s, k) == SubSeq(s, 1, IF k < Len(s) THEN k ELSE Len(s))

closest_neighbors(positions, k) ==
    take(sort_by_weight(outer_loop(positions, 0)), k)

\* ----------------------------------------------------------------- UnionFind
UnionFind_new(n) ==
    [parent |-> [i \in 0 .. n - 1 |-> i], size |-> [i \in 0 .. n - 1 |-> 1]]

Len_parent(u) == Cardinality(DOMAIN u.parent)

\* Mutant: the root is found but no parent pointer is rewritten.
RECURSIVE find_without_flattening(_, _)
find_without_flattening(u, i) ==
    IF u.parent[i] = i THEN [uf |-> u, root |-> i]
    ELSE [uf |-> u, root |-> find_without_flattening(u, u.parent[i]).root]

\* find returns the root and leaves the forest with the visited path flattened.
RECURSIVE find(_, _)
find(u, i) ==
    IF u.parent[i] = i THEN [uf |-> u, root |-> i]
    ELSE LET r == find(u, u.parent[i])
         IN  [uf   |-> [r.uf EXCEPT !.parent[i] = r.root],
              root |-> r.root]

\* Mutant: the absorbing root's size is not updated.
union_size_forgotten(u, i, j) ==
    LET fi == find(u, i)
        fj == find(fi.uf, j)
        root_i == fi.root
        root_j == fj.root
        v == fj.uf
    IN  IF root_i = root_j THEN v
        ELSE IF v.size[root_i] < v.size[root_j]
        THEN [v EXCEPT !.parent[root_i] = root_j]
        ELSE [v EXCEPT !.parent[root_j] = root_i]

\* Mutant: no early return when both indices already share a root.
union_same_root_unchecked(u, i, j) ==
    LET fi == find(u, i)
        fj == find(fi.uf, j)
        root_i == fi.root
        root_j == fj.root
        v == fj.uf
    IN  IF v.size[root_i] < v.size[root_j]
        THEN [parent |-> [v.parent EXCEPT ![root_i] = root_j],
              size   |-> [v.size EXCEPT ![root_j] = v.size[root_j] + v.size[root_i]]]
        ELSE [parent |-> [v.parent EXCEPT ![root_j] = root_i],
              size   |-> [v.size EXCEPT ![root_i] = v.size[root_i] + v.size[root_j]]]

\* Mutant: the larger set's root is put under the smaller set's root.
union_larger_under_smaller(u, i, j) ==
    LET fi == find(u, i)
        fj == find(fi.uf, j)
        root_i == fi.root
        root_j == fj.root
        v == fj.uf
    IN  IF root_i = root_j THEN v
        ELSE IF v.size[root_i] < v.size[root_j]
        THEN [parent |-> [v.parent EXCEPT ![root_j] = root_i],
              size   |-> [v.size EXCEPT ![root_i] = v.size[root_i] + v.size[root_j]]]
        ELSE [parent |-> [v.parent EXCEPT ![root_i] = root_j],
              size   |-> [v.size EXCEPT ![root_j] = v.size[root_j] + v.size[root_i]]]

\* Mutant: no union by size, root_j always goes under root_i.
union_ignores_size(u, i, j) ==
    LET fi == find(u, i)
        fj == find(fi.uf, j)
        root_i == fi.root
        root_j == fj.root
        v == fj.uf
    IN  IF root_i = root_j THEN v
        ELSE [parent |-> [v.parent EXCEPT ![root_j] = root_i],
              size   |-> [v.size EXCEPT ![root_i] = v.size[root_i] + v.size[root_j]]]

\* Mutant: the index itself, not its root, is re-parented.
union_moves_index(u, i, j) ==
    LET fi == find(u, i)
        fj == find(fi.uf, j)
        root_i == fi.root
        root_j == fj.root
        v == fj.uf
    IN  IF root_i = root_j THEN v
        ELSE IF v.size[root_i] < v.size[root_j]
        THEN [parent |-> [v.parent EXCEPT ![i] = root_j],
              size   |-> [v.size EXCEPT ![root_j] = v.size[root_j] + v.size[root_i]]]
        ELSE [parent |-> [v.parent EXCEPT ![j] = root_i],
              size   |-> [v.size EXCEPT ![root_i] = v.size[root_i] + v.size[root_j]]]

\* Mutant: no find at all, j is put under i.
union_without_find(u, i, j) == [u EXCEPT !.parent[j] = i]

union(u, i, j) ==
    LET fi == find(u, i)
        fj == find(fi.uf, j)
        root_i == fi.root
        root_j == fj.root
        v == fj.uf
    IN  IF root_i = root_j THEN v
        ELSE IF v.size[root_i] < v.size[root_j]
        THEN [parent |-> [v.parent EXCEPT ![root_i] = root_j],
              size   |-> [v.size EXCEPT ![root_j] = v.size[root_j] + v.size[root_i]]]
        ELSE [parent |-> [v.parent EXCEPT ![root_j] = root_i],
              size   |-> [v.size EXCEPT ![root_i] = v.size[root_i] + v.size[root_j]]]

\* The sizes of the entries with parent[i] == i, in index order.
RECURSIVE circuit_sizes_from(_, _)
circuit_sizes_from(u, i) ==
    IF i >= Len_parent(u) THEN <<>>
    ELSE (IF u.parent[i] = i THEN <<u.size[i]>> ELSE <<>>)
         \o circuit_sizes_from(u, i + 1)

\* Mutant: the size entry of every index is collected, root or not.
get_all_circuit_sizes_of_every_index(u) ==
    [m \in 1 .. Len_parent(u) |-> u.size[m - 1]]

get_all_circuit_sizes(u) == circuit_sizes_from(u, 0)

\* Mutant: the size of index 0 is read without resolving its root.
all_connected_unresolved(u) ==
    [uf |-> u, ret |-> u.size[0] = Len_parent(u)]

all_connected(u) ==
    LET f == find(u, 0)
    IN  [uf |-> f.uf, ret |-> f.uf.size[f.root] = Len_parent(u)]

\* ------------------------------------------------------------ SpecUF
\* The forest under any sequence of calls. op records the last call: its name,
\* its arguments, the root find returned and the answer of all_connected.
\* For find, j is parent[i] as the call found it; for union, flag tells that
\* the call did not take the early return (the two roots differed).
Call(name, i, j, root, flag) ==
    [name |-> name, i |-> i, j |-> j, root |-> root, flag |-> flag]

NoCall == Call("none", 0, 0, 0, FALSE)

NoResult == [kind |-> "none", value |-> 0]

\* The programs of the other days are not running.
DialIdle == dial = <<>> /\ turn = <<>>

RangesIdle == ranges = <<>> /\ given = <<>>

LabIdle == lab = <<>> /\ entry = <<>>

OtherDaysIdle == DialIdle /\ RangesIdle /\ LabIdle

DriverIdle ==
    /\ numbers = <<>>
    /\ budget = 0
    /\ mode = 0
    /\ closest = <<>>
    /\ idx = 0
    /\ pc = "idle"
    /\ result = NoResult

InitUF ==
    /\ \E n \in 1 .. MaxN : uf = UnionFind_new(n)
    /\ op = Call("new", 0, 0, 0, FALSE)
    /\ DriverIdle
    /\ OtherDaysIdle

Find ==
    \E i \in DOMAIN uf.parent :
        LET f == find(uf, i)
        IN  /\ uf' = f.uf
            /\ op' = Call("find", i, uf.parent[i], f.root, FALSE)
            /\ UNCHANGED <<driverVars, dialVars, rangesVars, labVars>>

Union ==
    \E i \in DOMAIN uf.parent, j \in DOMAIN uf.parent :
        /\ uf' = union(uf, i, j)
        /\ op' = Call("union", i, j, 0, find(uf, i).root # find(uf, j).root)
        /\ UNCHANGED <<driverVars, dialVars, rangesVars, labVars>>

AllConnected ==
    LET a == all_connected(uf)
    IN  /\ uf' = a.uf
        /\ op' = Call("all_connected", 0, 0, 0, a.ret)
        /\ UNCHANGED <<driverVars, dialVars, rangesVars, labVars>>

NextUF == Find \/ Union \/ AllConnected

SpecUF == InitUF /\ [][NextUF]_vars

\* ------------------------------------------------------------ SpecDriver
\* circuit_sizes.sort(): ascending order of usize.
RECURSIVE insert_size(_, _)
insert_size(s, x) ==
    IF s = <<>> THEN <<x>>
    ELSE IF s[Len(s)] <= x THEN Append(s, x)
    ELSE Append(insert_size(SubSeq(s, 1, Len(s) - 1), x), s[Len(s)])

RECURSIVE sort(_)
sort(s) ==
    IF s = <<>> THEN <<>>
    ELSE insert_size(sort(SubSeq(s, 1, Len(s) - 1)), s[Len(s)])

reverse(s) == [m \in 1 .. Len(s) |-> s[Len(s) + 1 - m]]

\* Mutant: the reverse() is missing, the sizes stay in ascending order.
sorted_circuit_sizes_ascending(u) == sort(get_all_circuit_sizes(u))

\* circuit_sizes.sort(); circuit_sizes.reverse();
sorted_circuit_sizes(u) == reverse(sort(get_all_circuit_sizes(u)))

\* circuit_sizes[0] * circuit_sizes[1] * circuit_sizes[2]: indexing a Vec past
\* its length panics.
top_three_product(circuit_sizes) ==
    IF Len(circuit_sizes) < 3 THEN [kind |-> "panic", value |-> 0]
    ELSE [kind  |-> "value",
          value |-> circuit_sizes[1] * circuit_sizes[2] * circuit_sizes[3]]

\* for (_, i, j) in closest_neighbors { uf.union(i, j); }
RECURSIVE union_all(_, _)
union_all(u, edges) ==
    IF edges = <<>> THEN u
    ELSE union_all(union(u, edges[1][2], edges[1][3]), SubSeq(edges, 2, Len(edges)))

\* Mutant: all_connected is asked before the union instead of after it.
part2_iteration_checks_first(u, points, e) ==
    LET a == all_connected(u)
    IN  [uf        |-> union(a.uf, e[2], e[3]),
         returned  |-> a.ret,
         value     |-> points[e[2]][1] * points[e[3]][1]]

\* Mutant: the early return is missing, the loop always runs on.
part2_iteration_never_returns(u, points, e) ==
    [uf        |-> all_connected(union(u, e[2], e[3])).uf,
     returned  |-> FALSE,
     value     |-> points[e[2]][1] * points[e[3]][1]]

\* One iteration of the loop of solution_part_2 on edge e = (_, i, j):
\* v is the forest after uf.union(i, j), a what uf.all_connected() then gives.
\* (v and a are bound as set elements, so that TLC computes each once also
\* where it evaluates ENABLED.)
part2_iteration(u, points, e) ==
    CHOOSE it \in
        { [uf        |-> a.uf,
           returned  |-> a.ret,
           value     |-> points[e[2]][1] * points[e[3]][1]] :
             a \in { all_connected(v) : v \in {union(u, e[2], e[3])} } } : TRUE

PointListsUpTo(max) == UNION { [0 .. n - 1 -> PositionPool] : n \in 0 .. max }

PointLists == PointListsUpTo(MaxPoints)

\* A point list outside the pool: three points on a line and one far away.
ScenarioA ==
    [m \in 0 .. 3 |->
        IF m = 0 THEN <<0, 0, 0>>
        ELSE IF m = 1 THEN <<0, 0, 1>>
        ELSE IF m = 2 THEN <<0, 0, 5>>
        ELSE <<10, 10, 10>>]

InitDriver ==
    /\ numbers \in PointLists \cup {ScenarioA}
    /\ budget \in 0 .. MaxK
    /\ uf = UnionFind_new(0)
    /\ op = NoCall
    /\ mode = 0
    /\ closest = <<>>
    /\ idx = 0
    /\ pc = "start"
    /\ result = NoResult
    /\ OtherDaysIdle

\* solution_part_1 from call to return (or panic).
SolutionPart1 ==
    /\ pc = "start"
    /\ LET closest_neighbors_ == closest_neighbors(numbers, budget)
           u == union_all(UnionFind_new(NumPoints(numbers)), closest_neighbors_)
       IN  /\ closest' = closest_neighbors_
           /\ uf' = u
           /\ idx' = Len(closest_neighbors_)
           /\ result' = top_three_product(sorted_circuit_sizes(u))
    /\ mode' = 1
    /\ pc' = "done"
    /\ UNCHANGED <<op, numbers, budget, dialVars, rangesVars, labVars>>

\* solution_part_2 up to the head of its for loop.
Part2Start ==
    /\ pc = "start"
    /\ closest' = closest_neighbors(numbers, budget)
    /\ uf' = UnionFind_new(NumPoints(numbers))
    /\ mode' = 2
    /\ pc' = "scan"
    /\ UNCHANGED <<op, numbers, budget, idx, result, dialVars, rangesVars, labVars>>

\* One pass through the loop body: union, all_connected, and the early return.
Part2Step ==
    /\ pc = "scan"
    /\ idx < Len(closest)
    /\ \E it \in {part2_iteration(uf, numbers, closest[idx + 1])} :
           /\ uf' = it.uf
           /\ idx' = idx + 1
           /\ IF it.returned
              THEN /\ pc' = "done"
                   /\ result' = [kind |-> "ok", value |-> it.value]
              ELSE UNCHANGED <<pc, result>>
    /\ UNCHANGED <<op, numbers, budget, mode, closest, dialVars, rangesVars, labVars>>

\* The loop ran out of edges: Err("Could not connect all points").
Part2Exhausted ==
    /\ pc = "scan"
    /\ idx = Len(closest)
    /\ pc' = "done"
    /\ result' = [kind |-> "err", value |-> 0]
    /\ UNCHANGED <<uf, op, numbers, budget, mode, closest, idx, dialVars, rangesVars, labVars>>

NextDriver == SolutionPart1 \/ Part2Start \/ Part2Step \/ Part2Exhausted

SpecDriver == InitDriver /\ [][NextDriver]_vars

\* solution_part_2 alone, from a single initial state: the caller's input
\* arrives with the call. Termination is verified on this form.
InitLive ==
    /\ numbers = <<>>
    /\ budget = 0
    /\ uf = UnionFind_new(0)
    /\ op = NoCall
    /\ mode = 0
    /\ closest = <<>>
    /\ idx = 0
    /\ pc = "call"
    /\ result = NoResult
    /\ OtherDaysIdle

\* solution_part_2 is called with some point list and budget and runs up to
\* the head of its for loop.
Part2Call ==
    /\ pc = "call"
    /\ \E points \in PointListsUpTo(MaxLivePoints), n \in 0 .. MaxLiveK :
          /\ numbers' = points
          /\ budget' = n
          /\ closest' = closest_neighbors(points, n)
          /\ uf' = UnionFind_new(NumPoints(points))
    /\ mode' = 2
    /\ pc' = "scan"
    /\ UNCHANGED <<op, idx, result, dialVars, rangesVars, labVars>>

NextLive == Part2Call \/ Part2Step \/ Part2Exhausted

\* A sequential program that has not returned takes its next step.
LiveDriver == InitLive /\ [][NextLive]_vars /\ WF_vars(NextLive)

\* ------------------------------------------------------------ vocabulary
\* What find(i) returns on forest u.
Root(u, i) == find(u, i).root

Indices(u) == DOMAIN u.parent

AllSameRoot(u) == \A i \in Indices(u), j \in Indices(u) : Root(u, i) = Root(u, j)

\* The indices a set S reaches over undirected edges E (pairs <<i, j>>), as a
\* graph: the yardstick the forest is measured against.
RECURSIVE Reach(_, _)
Reach(E, S) ==
    LET T == S \cup { e[2] : e \in { d \in E : d[1] \in S } }
                \cup { e[1] : e \in { d \in E : d[2] \in S } }
    IN  IF T = S THEN S ELSE Reach(E, T)

\* The index pairs of the first m ranked edges.
EdgePrefix(m) == { <<closest[t][2], closest[t][3]>> : t \in 1 .. m }

Points == DOMAIN numbers

Components(E) == { Reach(E, {i}) : i \in Points }

\* An undirected graph is connected when any one of its nodes reaches all.
GraphConnected(E) ==
    Points = {} \/ Reach(E, {CHOOSE i \in Points : TRUE}) = Points

\* v is the product of the sizes of three components none of the others exceeds.
IsTopThreeProduct(C, v) ==
    \E A \in C, B \in C, D \in C :
        /\ A # B /\ A # D /\ B # D
        /\ \A X \in C \ {A, B, D} :
              /\ Cardinality(X) <= Cardinality(A)
              /\ Cardinality(X) <= Cardinality(B)
              /\ Cardinality(X) <= Cardinality(D)
        /\ v = Cardinality(A) * Cardinality(B) * Cardinality(D)

SquaredDistance(a, b) ==
    (a[1] - b[1]) * (a[1] - b[1]) + (a[2] - b[2]) * (a[2] - b[2])
        + (a[3] - b[3]) * (a[3] - b[3])

\* States of the first-full-connectivity driver.
DriverState ==
    IF pc = "done" /\ result.kind = "ok" THEN "Connected"
    ELSE IF pc = "done" /\ result.kind = "err" THEN "Exhausted"
    ELSE "Scanning"

\* ------------------------------------------------------------ claims: forest
\* C1: in every forest reachable from UnionFind::new(n) by find and union
\* calls, size[find(i)] is the number of indices j with find(j) = find(i).
C1_SizeCountsMembers ==
    \A i \in Indices(uf) :
        uf.size[Root(uf, i)]
            = Cardinality({ j \in Indices(uf) : Root(uf, j) = Root(uf, i) })

\* A set of three or more members whose root absorbed another root that keeps
\* a stale size of two or more.
C1_Witness ==
    \E r \in Indices(uf), x \in Indices(uf) :
        /\ uf.parent[r] = r
        /\ uf.size[r] >= 3
        /\ uf.parent[x] # x
        /\ uf.size[x] >= 2

\* C2: all_connected() (size[find(0)] == n) answers true exactly when find
\* gives the same root for all n indices: in every reachable forest for the
\* answer it would give, and for the answer the last call gave.
C2_AllConnectedIffOneRoot ==
    /\ all_connected(uf).ret <=> AllSameRoot(uf)
    /\ op.name = "all_connected" => (op.flag <=> AllSameRoot(uf))

\* all_connected answered true on a forest of three or more indices whose
\* root is not index 0.
C2_Witness ==
    /\ op.name = "all_connected"
    /\ op.flag
    /\ Len_parent(uf) >= 3
    /\ uf.parent[0] # 0

\* C9: after union(i, j), find(i) = find(j); the same union once more changes
\* the root of no index and the size of no root.
C9_UnionJoinsAndRepeats ==
    op.name = "union" =>
        /\ Root(uf, op.i) = Root(uf, op.j)
        /\ LET again == union(uf, op.i, op.j)
           IN  /\ \A x \in Indices(uf) : Root(again, x) = Root(uf, x)
               /\ \A r \in Indices(uf) :
                     uf.parent[r] = r => again.size[r] = uf.size[r]

\* A union of two different indices after which the repeated union still
\* rewrites a parent pointer (it flattens j's path) in a set of three or more.
C9_Witness ==
    /\ op.name = "union"
    /\ op.i # op.j
    /\ uf.size[Root(uf, op.i)] >= 3
    /\ union(uf, op.i, op.j).parent # uf.parent

\* ------------------------------------------------------------ claims: drivers
\* C3, the state part: in solution_part_2 the forest after idx iterations
\* holds exactly the sets of the graph of the first idx ranked edges; the
\* first prefix that connects the graph is the one the run stopped on, with
\* Ok(x(point i) * x(point j)) of its last edge; Ok is returned on no other.
C3_FirstConnectingEdge ==
    mode = 2 =>
        /\ idx <= Len(closest)
        /\ \A a \in Points :
              { b \in Points : Root(uf, b) = Root(uf, a) } = Reach(EdgePrefix(idx), {a})
        /\ \A m \in 1 .. idx :
              GraphConnected(EdgePrefix(m)) =>
                  /\ m = idx
                  /\ pc = "done"
                  /\ result = [kind  |-> "ok",
                               value |-> numbers[closest[m][2]][1]
                                             * numbers[closest[m][3]][1]]
        /\ result.kind = "ok" =>
              /\ pc = "done"
              /\ idx >= 1
              /\ GraphConnected(EdgePrefix(idx))

\* C3, the step part: the loop takes the edges one at a time in ranked
\* order, and after the return no edge is applied.
C3_NoEdgeAfterReturn ==
    /\ mode = 2 /\ idx' # idx => pc = "scan" /\ idx' = idx + 1
    /\ pc = "done" => UNCHANGED <<uf, idx, result>>

\* C3: solution_part_2 applies the ranked edges in order and returns Ok at
\* the first edge whose union leaves the forest fully connected, with the
\* product of the x coordinates of that edge's points; no earlier edge
\* connected the forest and no later edge is applied.
C3_ReturnsAtFirstFullConnection ==
    [] C3_FirstConnectingEdge /\ [][C3_NoEdgeAfterReturn]_vars

\* A run that returned Ok with a non-trivial value after scanning at least
\* one edge that merged nothing, leaving ranked edges unread.
C3_Witness ==
    /\ mode = 2
    /\ pc = "done"
    /\ result.kind = "ok"
    /\ result.value > 1
    /\ idx > NumPoints(numbers) - 1
    /\ idx < Len(closest)

\* C4: solution_part_1 with fewer than three components after the unions
\* returns an InsufficientComponents error: no panic, no product.
C4_InsufficientComponentsReported ==
    (mode = 1 /\ pc = "done" /\ Cardinality(Components(EdgePrefix(Len(closest)))) < 3)
        => result.kind = "insufficient"

\* C5: solution_part_1 with three or more components after the unions returns
\* the product of the three largest component sizes of the graph whose edges
\* are the ranked edges it was given.
C5_ProductOfThreeLargest ==
    (mode = 1 /\ pc = "done" /\ Cardinality(Components(EdgePrefix(Len(closest)))) >= 3)
        => /\ result.kind = "value"
           /\ IsTopThreeProduct(Components(EdgePrefix(Len(closest))), result.value)

\* Four components of which one has two members: the three largest have to be
\* picked, and the product is not 1.
C5_Witness ==
    /\ mode = 1
    /\ pc = "done"
    /\ result = [kind |-> "value", value |-> 2]
    /\ Cardinality(Components(EdgePrefix(Len(closest)))) = 4

\* C6 as stated: solution_part_2 returns Err exactly when the ranked edges ran
\* out without the forest ever being fully connected, and then two indices
\* have different roots.
C6_NotConnectedAsStated ==
    (mode = 2 /\ pc = "done") =>
        /\ result.kind = "err" <=>
              /\ idx = Len(closest)
              /\ \A m \in 0 .. idx : ~GraphConnected(EdgePrefix(m))
        /\ result.kind = "err" =>
              \E a \in Points, b \in Points : Root(uf, a) # Root(uf, b)

\* C6 amended: solution_part_2 returns Err exactly when the ranked edges ran
\* out without any union having left the forest fully connected; when it
\* returns Err for two or more points, two indices have different roots.
C6_NotConnectedAfterNoUnion ==
    (mode = 2 /\ pc = "done") =>
        /\ result.kind = "err" <=>
              /\ idx = Len(closest)
              /\ \A m \in 1 .. idx : ~GraphConnected(EdgePrefix(m))
        /\ (result.kind = "err" /\ NumPoints(numbers) >= 2) =>
              \E a \in Points, b \in Points : Root(uf, a) # Root(uf, b)

\* Err after every ranked edge was applied, some of them merging sets, on
\* three or more points.
C6_Witness ==
    /\ mode = 2
    /\ pc = "done"
    /\ result.kind = "err"
    /\ NumPoints(numbers) >= 3
    /\ idx = Len(closest)
    /\ idx >= 2
    /\ \E a \in Points : uf.parent[a] # a

\* C7: with a budget k < n - 1 on n points solution_part_2 returns Err.
C7_BudgetBelowSpanningTree ==
    (mode = 2 /\ pc = "done" /\ budget < NumPoints(numbers) - 1)
        => result.kind = "err"

\* Err with the budget one short of a spanning tree, every edge of it used.
C7_Witness ==
    /\ mode = 2
    /\ pc = "done"
    /\ result.kind = "err"
    /\ budget >= 2
    /\ budget = NumPoints(numbers) - 2
    /\ idx = budget

\* C8, the state part: never more iterations than ranked edges; Connected
\* only on the first union that leaves one root for all indices; Exhausted
\* only with every edge applied and none of them having connected the forest.
C8_TerminalStates ==
    mode = 2 =>
        /\ idx <= Len(closest)
        /\ DriverState = "Connected" =>
              /\ idx >= 1
              /\ AllSameRoot(uf)
              /\ \A m \in 1 .. idx - 1 : ~GraphConnected(EdgePrefix(m))
        /\ DriverState = "Exhausted" =>
              /\ idx = Len(closest)
              /\ \A m \in 1 .. idx : ~GraphConnected(EdgePrefix(m))
        /\ DriverState = "Scanning" =>
              \A m \in 1 .. idx : ~GraphConnected(EdgePrefix(m))

\* C8, the step part: a terminal state is left by no step and followed by no
\* union.
C8_TerminalIsFinal ==
    (mode = 2 /\ DriverState # "Scanning") => UNCHANGED <<uf, idx, pc, result>>

\* C8: the driver of solution_part_2 starts in Scanning, eventually reaches
\* Connected (on the union that first connects the forest) or Exhausted (the
\* edges ended first) after at most Len(closest) unions, and performs no
\* union after that.
C8_DriverTerminates ==
    /\ DriverState = "Scanning"
    /\ [](mode = 2 => <>(DriverState \in {"Connected", "Exhausted"}))
    /\ [] C8_TerminalStates
    /\ [][C8_TerminalIsFinal]_vars

\* The driver reached Connected with ranked edges left unread.
C8_Witness ==
    /\ mode = 2
    /\ DriverState = "Connected"
    /\ idx >= 3
    /\ idx < Len(closest)

\* C10: the result of closest_neighbors(points, k) has non-decreasing weights
\* and min(k, n*(n-1)/2) entries (w, i, j), each with i < j and w the squared
\* distance of points i and j.
C10_RankedEdges ==
    mode # 0 =>
        LET n == NumPoints(numbers)
            pairs == (n * (n - 1)) \div 2
        IN  /\ Len(closest) = IF budget < pairs THEN budget ELSE pairs
            /\ \A t \in 1 .. Len(closest) - 1 : closest[t][1] <= closest[t + 1][1]
            /\ \A t \in 1 .. Len(closest) :
                  /\ closest[t][2] \in Points
                  /\ closest[t][3] \in Points
                  /\ closest[t][2] < closest[t][3]
                  /\ closest[t][1]
                        = SquaredDistance(numbers[closest[t][2]], numbers[closest[t][3]])

\* A truncated result of three or more edges of different weights, from a
\* point list whose pairs were not generated in weight order.
C10_Witness ==
    /\ mode # 0
    /\ Len(closest) >= 3
    /\ Len(closest) = budget
    /\ 2 * budget < NumPoints(numbers) * (NumPoints(numbers) - 1)
    /\ closest[1][1] < closest[Len(closest)][1]
    /\ sort_by_weight(outer_loop(numbers, 0)) # outer_loop(numbers, 0)

\* ------------------------------------------------------------ claims: forest shape
\* The index k parent lookups away from i.
RECURSIVE ParentIter(_, _, _)
ParentIter(u, i, k) == IF k = 0 THEN i ELSE ParentIter(u, u.parent[i], k - 1)

\* The indices on the parent chain of i, i and the end of the chain included.
Chain(u, i) == { ParentIter(u, i, k) : k \in 0 .. Len_parent(u) }

\* The number of links of the parent chain from i to the first root on it.
Links(u, i) ==
    CHOOSE k \in 0 .. Len_parent(u) :
        /\ u.parent[ParentIter(u, i, k)] = ParentIter(u, i, k)
        /\ \A m \in 0 .. k - 1 : u.parent[ParentIter(u, i, m)] # ParentIter(u, i, m)

\* The number of nested calls find(i) makes: one per index of the chain.
RECURSIVE find_calls(_, _)
find_calls(u, i) == IF u.parent[i] = i THEN 1 ELSE 1 + find_calls(u, u.parent[i])

RECURSIVE Pow2(_)
Pow2(k) == IF k = 0 THEN 1 ELSE 2 * Pow2(k - 1)

Roots(u) == { i \in Indices(u) : u.parent[i] = i }

\* C15: the parent mapping is a forest: from every index the parent lookups
\* stay inside the index range and reach, within n steps, an index that is
\* its own parent; no index other than such a root comes back to itself.
C15_ParentIsForest ==
    \A i \in Indices(uf) :
        /\ uf.parent[i] \in Indices(uf)
        /\ \E k \in 0 .. Len_parent(uf) :
              uf.parent[ParentIter(uf, i, k)] = ParentIter(uf, i, k)
        /\ \A k \in 1 .. Len_parent(uf) :
              ParentIter(uf, i, k) = i => uf.parent[i] = i

\* A chain of two links: an index whose parent is not a root.
C15_Witness ==
    \E i \in Indices(uf) : uf.parent[uf.parent[i]] # uf.parent[i]

\* C16, on a step: union(i, j) of two different sets puts the root of the set
\* with fewer members under the root of the other (root(j) under root(i) when
\* they tie), gives the surviving root the sum of both sizes and leaves the
\* members and the size of every other set as they were.
C16_UnionStep ==
    (op'.name = "union" /\ Root(uf, op'.i) # Root(uf, op'.j)) =>
        LET root_i == Root(uf, op'.i)
            root_j == Root(uf, op'.j)
            fewer  == IF uf.size[root_i] < uf.size[root_j] THEN root_i ELSE root_j
            more   == IF uf.size[root_i] < uf.size[root_j] THEN root_j ELSE root_i
        IN  /\ uf'.parent[fewer] = more
            /\ uf'.parent[more] = more
            /\ uf'.size[more] = uf.size[root_i] + uf.size[root_j]
            /\ \A x \in Indices(uf) :
                  IF Root(uf, x) \in {root_i, root_j}
                  THEN Root(uf', x) = more
                  ELSE /\ Root(uf', x) = Root(uf, x)
                       /\ uf'.size[Root(uf', x)] = uf.size[Root(uf, x)]

\* C16: union by size, as an action property of every union call.
C16_UnionBySize == [][C16_UnionStep]_vars

\* A union that merged two sets and left i directly under j: the set of i
\* had fewer members. The merged set has three or more members.
C16_Witness ==
    /\ op.name = "union"
    /\ op.flag
    /\ op.i # op.j
    /\ uf.parent[op.i] = op.j
    /\ uf.parent[op.j] = op.j
    /\ uf.size[op.j] >= 3

\* C17, on a step: find(i) returns the root the chain of i ends in; after it
\* every index of that chain has the root as parent, every other parent and
\* every size is as before, and every index has the root it had.
C17_FindStep ==
    op'.name = "find" =>
        LET root == ParentIter(uf, op'.i, Links(uf, op'.i))
        IN  /\ op'.root = root
            /\ \A x \in Indices(uf) :
                  /\ x \in Chain(uf, op'.i) => uf'.parent[x] = root
                  /\ x \notin Chain(uf, op'.i) => uf'.parent[x] = uf.parent[x]
                  /\ Root(uf', x) = Root(uf, x)
            /\ uf'.size = uf.size

\* C17: path flattening and its frame, as an action property of every find.
C17_FindFlattens == [][C17_FindStep]_vars

\* A find(i) that found i under a parent that was not the root.
C17_Witness ==
    /\ op.name = "find"
    /\ op.j # op.i
    /\ op.j # op.root
    /\ uf.parent[op.i] = op.root

\* C18: the chain from any index to its root r has at most floor(log2(size[r]))
\* links, so find nests at most floor(log2(n)) + 1 calls.
C18_ChainIsLogarithmic ==
    \A i \in Indices(uf) :
        /\ Pow2(Links(uf, i)) <= uf.size[Root(uf, i)]
        /\ Pow2(find_calls(uf, i) - 1) <= Len_parent(uf)

\* A chain of two links in a set of four: the bound is met.
C18_Witness ==
    \E i \in Indices(uf) :
        /\ Links(uf, i) = 2
        /\ find_calls(uf, i) = 3
        /\ uf.size[Root(uf, i)] = 4

\* C19, on a step: two indices with the same root keep sharing a root; the
\* number of roots drops by one on a union of two different sets and stays
\* as it is on every other call.
C19_MergeStep ==
    /\ \A a \in Indices(uf), b \in Indices(uf) :
          Root(uf, a) = Root(uf, b) => Root(uf', a) = Root(uf', b)
    /\ Cardinality(Roots(uf')) =
          IF op'.name = "union" /\ Root(uf, op'.i) # Root(uf, op'.j)
          THEN Cardinality(Roots(uf)) - 1
          ELSE Cardinality(Roots(uf))

\* C19: sets are never un-merged, as an action property of every call.
C19_NeverUnmerged == [][C19_MergeStep]_vars

\* A union that merged the last two sets of a forest of three or more indices.
C19_Witness ==
    /\ op.name = "union"
    /\ op.flag
    /\ Len_parent(uf) >= 3
    /\ Cardinality(Roots(uf)) = 1

\* C20: get_all_circuit_sizes (the scan for parent[i] == i) has one entry per
\* root that find reports, holds each size as often as find-reported roots
\* have it, and its entries sum to n.
C20_CircuitSizesMatchFind ==
    LET sizes == get_all_circuit_sizes(uf)
        found == { Root(uf, i) : i \in Indices(uf) }
        SumTo[m \in 0 .. Len(sizes)] == IF m = 0 THEN 0 ELSE SumTo[m - 1] + sizes[m]
    IN  /\ Len(sizes) = Cardinality(found)
        /\ \A v \in 1 .. Len_parent(uf) :
              Cardinality({ m \in 1 .. Len(sizes) : sizes[m] = v })
                  = Cardinality({ r \in found : uf.size[r] = v })
        /\ SumTo[Len(sizes)] = Len_parent(uf)

\* Two sets of different sizes, one of them with non-root members.
C20_Witness ==
    /\ get_all_circuit_sizes(uf) \in { <<3, 1>>, <<1, 3>> }
    /\ \E x \in Indices(uf) : uf.parent[x] # x

\* ------------------------------------------------------------ claims: ranker
\* The index pairs of the ranked edges, in order.
PairAt(t) == <<closest[t][2], closest[t][3]>>

\* All unordered pairs of two different point indices, smaller index first.
AllPairs == { <<i, j>> \in Points \X Points : i < j }

\* The total order (weight, i, j) on edges.
EdgeBefore(a, b) ==
    \/ a[1] < b[1]
    \/ a[1] = b[1] /\ a[2] < b[2]
    \/ a[1] = b[1] /\ a[2] = b[2] /\ a[3] < b[3]

\* C11: with k = n*(n-1)/2 the result of closest_neighbors holds every
\* unordered pair of different indices exactly once (in one orientation, never
\* an index with itself); for any k no pair is in it twice, in either
\* orientation.
C11_EveryPairOnce ==
    mode # 0 =>
        LET n == NumPoints(numbers)
        IN  /\ \A s \in 1 .. Len(closest), t \in 1 .. Len(closest) :
                  s # t => /\ PairAt(s) # PairAt(t)
                           /\ PairAt(s) # <<PairAt(t)[2], PairAt(t)[1]>>
            /\ budget = (n * (n - 1)) \div 2 =>
                  /\ \A t \in 1 .. Len(closest) : PairAt(t)[1] # PairAt(t)[2]
                  /\ \A e \in AllPairs :
                        Cardinality({ t \in 1 .. Len(closest) :
                            {PairAt(t)[1], PairAt(t)[2]} = {e[1], e[2]} }) = 1

\* Four points ranked with k = 6: all six pairs come back.
C11_Witness ==
    /\ mode # 0
    /\ NumPoints(numbers) = 4
    /\ budget = 6
    /\ Len(closest) = 6

\* C12: the result of closest_neighbors is the first k edges of all pairs in
\* the total order (weight, i, j): it ascends strictly in that order, so edges
\* of one weight are in lexicographic (i, j) order, and every pair left out
\* comes after its last entry.
C12_FirstKInTotalOrder ==
    mode # 0 =>
        /\ \A t \in 1 .. Len(closest) - 1 : EdgeBefore(closest[t], closest[t + 1])
        /\ \A e \in AllPairs \ { PairAt(t) : t \in 1 .. Len(closest) } :
              /\ budget <= Len(closest)
              /\ Len(closest) > 0 =>
                    EdgeBefore(closest[Len(closest)],
                               <<SquaredDistance(numbers[e[1]], numbers[e[2]]), e[1], e[2]>>)

\* Two edges of one weight next to each other, and the cut made by k falls
\* between edges of one weight.
C12_Witness ==
    /\ mode # 0
    /\ Len(closest) >= 2
    /\ closest[Len(closest) - 1][1] = closest[Len(closest)][1]
    /\ \E e \in AllPairs \ { PairAt(t) : t \in 1 .. Len(closest) } :
          SquaredDistance(numbers[e[1]], numbers[e[2]]) = closest[Len(closest)][1]

\* union with the other choice on equal sizes: root_i goes under root_j.
union_tie_reversed(u, i, j) ==
    LET fi == find(u, i)
        fj == find(fi.uf, j)
        root_i == fi.root
        root_j == fj.root
        v == fj.uf
    IN  IF root_i = root_j THEN v
        ELSE IF v.size[root_i] <= v.size[root_j]
        THEN [parent |-> [v.parent EXCEPT ![root_i] = root_j],
              size   |-> [v.size EXCEPT ![root_j] = v.size[root_j] + v.size[root_i]]]
        ELSE [parent |-> [v.parent EXCEPT ![root_j] = root_i],
              size   |-> [v.size EXCEPT ![root_i] = v.size[root_i] + v.size[root_j]]]

RECURSIVE union_all_tie_reversed(_, _)
union_all_tie_reversed(u, edges) ==
    IF edges = <<>> THEN u
    ELSE union_all_tie_reversed(union_tie_reversed(u, edges[1][2], edges[1][3]),
                                SubSeq(edges, 2, Len(edges)))

\* C13: what solution_part_1 returns (the product, or the panic) is what it
\* would return with union putting root(i) under root(j) on equal sizes.
C13_TieBreakDoesNotShow ==
    (mode = 1 /\ pc = "done") =>
        result = top_three_product(sorted_circuit_sizes(
                     union_all_tie_reversed(UnionFind_new(NumPoints(numbers)), closest)))

\* A product of a run whose forest the other choice would have shaped
\* differently, with a set of three or more indices in it.
C13_Witness ==
    /\ mode = 1
    /\ pc = "done"
    /\ result.kind = "value"
    /\ result.value >= 3
    /\ uf # union_all_tie_reversed(UnionFind_new(NumPoints(numbers)), closest)

\* C14: on ScenarioA with k = 2 the ranked edges are (1, 0, 1) and (16, 1, 2),
\* and after both unions on a fresh forest of four the sets are {0, 1, 2} with
\* size 3 and {3} with size 1.
C14_ScenarioA ==
    (numbers = ScenarioA /\ budget = 2 /\ mode = 1 /\ pc = "done") =>
        /\ closest = << <<1, 0, 1>>, <<16, 1, 2>> >>
        /\ Len_parent(uf) = 4
        /\ { { x \in Indices(uf) : Root(uf, x) = Root(uf, y) } : y \in Indices(uf) }
              = { {0, 1, 2}, {3} }
        /\ uf.size[Root(uf, 0)] = 3
        /\ uf.size[Root(uf, 3)] = 1
        /\ get_all_circuit_sizes(uf) \in { <<3, 1>>, <<1, 3>> }

\* ScenarioA ranked with k = 2 and both unions made.
C14_Witness ==
    /\ numbers = ScenarioA
    /\ budget = 2
    /\ mode = 1
    /\ pc = "done"
    /\ idx = 2

\* ------------------------------------------------------------ claims: the last edge
\* The forest solution_part_2 holds when it reaches ranked edge t: a fresh
\* forest with the unions of the edges before t made.
ForestBefore(t) ==
    union_all(UnionFind_new(NumPoints(numbers)), SubSeq(closest, 1, t - 1))

\* Ranked edge t joins two sets that are distinct when the loop reaches it.
MergesAt(t) ==
    \E u \in {ForestBefore(t)} :
        Root(u, closest[t][2]) # Root(u, closest[t][3])

\* C21, the state part: after Ok exactly n - 1 of the edges processed, the
\* last one included, joined two distinct sets, and the last one is of them.
C21_SpanningMerges ==
    (mode = 2 /\ pc = "done" /\ result.kind = "ok") =>
        /\ Cardinality({ t \in 1 .. idx : MergesAt(t) }) = NumPoints(numbers) - 1
        /\ MergesAt(idx)

\* C21, the step part: the iteration that returns Ok found the two endpoints
\* of its edge under different roots.
C21_LastEdgeMerges ==
    (mode = 2 /\ pc = "scan" /\ pc' = "done" /\ result'.kind = "ok") =>
        Root(uf, closest[idx + 1][2]) # Root(uf, closest[idx + 1][3])

\* C21: whenever solution_part_2 returns Ok, the edge that gives the value
\* joined two sets that were distinct just before its union, and exactly n - 1
\* of the edges processed up to and including it joined two distinct sets.
C21_OkOnAMergingEdge ==
    [] C21_SpanningMerges /\ [][C21_LastEdgeMerges]_vars

\* Ok on four or more points after at least two edges that joined nothing.
C21_Witness ==
    /\ mode = 2
    /\ pc = "done"
    /\ result.kind = "ok"
    /\ NumPoints(numbers) >= 4
    /\ idx >= NumPoints(numbers) + 1

\* ======================================================== day_1: the dial
\* TLC's integers are 32 bits wide. A u64 is held as four limbs of 16 bits,
\* least significant first, so that the arithmetic on Command::steps keeps
\* its width of 64 bits.
Base == 2^16

u64_from(x) == <<x % Base, x \div Base, 0, 0>>

u64_MAX == <<Base - 1, Base - 1, Base - 1, Base - 1>>

\* a + b on u64: the sum modulo 2^64 and whether it left the 64 bits.
u64_add(a, b) ==
    LET s1 == a[1] + b[1]
        s2 == a[2] + b[2] + s1 \div Base
        s3 == a[3] + b[3] + s2 \div Base
        s4 == a[4] + b[4] + s3 \div Base
    IN  [value    |-> <<s1 % Base, s2 % Base, s3 % Base, s4 % Base>>,
         overflow |-> s4 >= Base]

\* a - b on u64, for a >= b.
u64_sub(a, b) ==
    LET d1 == a[1] - b[1]
        d2 == a[2] - b[2] - (IF d1 < 0 THEN 1 ELSE 0)
        d3 == a[3] - b[3] - (IF d2 < 0 THEN 1 ELSE 0)
        d4 == a[4] - b[4] - (IF d3 < 0 THEN 1 ELSE 0)
    IN  <<(d1 + Base) % Base, (d2 + Base) % Base, (d3 + Base) % Base, (d4 + Base) % Base>>

\* a < b on u64.
u64_lt(a, b) ==
    \/ a[4] < b[4]
    \/ a[4] = b[4] /\ a[3] < b[3]
    \/ a[4] = b[4] /\ a[3] = b[3] /\ a[2] < b[2]
    \/ a[4] = b[4] /\ a[3] = b[3] /\ a[2] = b[2] /\ a[1] < b[1]

\* a / d and a % d on u64 for a divisor d below 2^15 (the dial's size).
u64_div(a, d) ==
    LET t4 == a[4]
        t3 == (t4 % d) * Base + a[3]
        t2 == (t3 % d) * Base + a[2]
        t1 == (t2 % d) * Base + a[1]
    IN  [quot |-> <<t1 \div d, t2 \div d, t3 \div d, t4 \div d>>, rem |-> t1 % d]

\* impl Default for Dial
Dial_default == [current_position |-> 50, size |-> 100]

\* Command { direction, steps }
Command_new(direction, steps) == [direction |-> direction, steps |-> steps]

\* Mutant: the step count is cut to its lowest 16 bits before it is reduced.
move_position_truncating_steps(self, command) ==
    LET steps == command.steps[1] % self.size
    IN  [self EXCEPT !.current_position =
            IF command.direction = "Right"
            THEN (self.current_position + steps) % self.size
            ELSE (self.current_position + self.size - steps) % self.size]

\* Dial::move_position: the dial after the call. Every sum stays below
\* 2 * size, far inside the u64 range.
move_position(self, command) ==
    LET steps == u64_div(command.steps, self.size).rem
    IN  [self EXCEPT !.current_position =
            IF command.direction = "Right"
            THEN (self.current_position + steps) % self.size
            ELSE (self.current_position + self.size - steps) % self.size]

\* Dial::count_zeros: what the call returns. current_position + steps is a
\* u64 addition: past 2^64 - 1 it panics in a build with overflow checks
\* (the debug profile) and wraps in a build without them (the release profile).
count_zeros(self, command, overflow_checks) ==
    IF command.direction = "Right"
    THEN LET sum == u64_add(u64_from(self.current_position), command.steps)
         IN  IF sum.overflow /\ overflow_checks
             THEN [kind |-> "panic", value |-> u64_from(0)]
             ELSE [kind |-> "value", value |-> u64_div(sum.value, self.size).quot]
    ELSE LET dist_to_zero == IF self.current_position = 0
                             THEN self.size
                             ELSE self.current_position
         IN  IF u64_lt(command.steps, u64_from(dist_to_zero))
             THEN [kind |-> "value", value |-> u64_from(0)]
             ELSE [kind  |-> "value",
                   value |-> u64_add(u64_from(1),
                                 u64_div(u64_sub(command.steps, u64_from(dist_to_zero)),
                                         self.size).quot).value]

\* ------------------------------------------------------------ SpecDial
\* Most calls of move_position in one run.
MaxCommands == 3

\* Step counts the commands are drawn from: none, one click, to and past
\* position 0 from the default position, whole turns, and the largest values
\* of a u64 (Command::try_from parses any u64).
StepsPool ==
    { u64_from(0), u64_from(1), u64_from(50), u64_from(99), u64_from(100),
      u64_from(250), u64_sub(u64_MAX, u64_from(49)), u64_MAX }

Commands == { Command_new(d, n) : d \in {"Left", "Right"}, n \in StepsPool }

\* A sum of step counts, five limbs wide: it holds any sum of 2^16 u64 values.
WideZero == <<0, 0, 0, 0, 0>>

WideAdd(w, a) ==
    LET s1 == w[1] + a[1]
        s2 == w[2] + a[2] + s1 \div Base
        s3 == w[3] + a[3] + s2 \div Base
        s4 == w[4] + a[4] + s3 \div Base
        s5 == w[5] + s4 \div Base
    IN  <<s1 % Base, s2 % Base, s3 % Base, s4 % Base, s5>>

NoCommand == Command_new("None", u64_from(0))

NoZeros == [kind |-> "none", value |-> u64_from(0)]

Day8Idle == uf = UnionFind_new(0) /\ op = NoCall /\ DriverIdle

\* let mut dial = Dial::default();
InitDial ==
    /\ dial = Dial_default
    /\ turn = [name |-> "default", command |-> NoCommand, zeros |-> NoZeros,
               before |-> Dial_default,
               rights |-> WideZero, lefts |-> WideZero, moves |-> 0]
    /\ Day8Idle
    /\ RangesIdle
    /\ LabIdle

\* dial.move_position(&command)
MovePosition ==
    /\ turn.moves < MaxCommands
    /\ \E command \in Commands :
          /\ dial' = move_position(dial, command)
          /\ turn' = [name    |-> "move_position",
                      command |-> command,
                      zeros   |-> NoZeros,
                      before  |-> dial,
                      rights  |-> IF command.direction = "Right"
                                  THEN WideAdd(turn.rights, command.steps)
                                  ELSE turn.rights,
                      lefts   |-> IF command.direction = "Left"
                                  THEN WideAdd(turn.lefts, command.steps)
                                  ELSE turn.lefts,
                      moves   |-> turn.moves + 1]
    /\ UNCHANGED <<ufVars, driverVars, rangesVars, labVars>>

\* dial.count_zeros(&command), in a build with or without overflow checks.
CountZeros ==
    /\ \E command \in Commands, overflow_checks \in BOOLEAN :
          turn' = [turn EXCEPT !.name = "count_zeros",
                               !.command = command,
                               !.before = dial,
                               !.zeros = count_zeros(dial, command, overflow_checks)]
    /\ UNCHANGED <<dial, ufVars, driverVars, rangesVars, labVars>>

NextDial == MovePosition \/ CountZeros

SpecDial == InitDial /\ [][NextDial]_vars

\* ------------------------------------------------------------ claims: the dial
\* Base^(k - 1) modulo m.
RECURSIVE WeightMod(_, _)
WeightMod(k, m) == IF k = 1 THEN 1 % m ELSE (WeightMod(k - 1, m) * (Base % m)) % m

\* The number held by the limbs w, modulo m: the sum of limb times weight.
RECURSIVE ResidueFrom(_, _, _)
ResidueFrom(w, m, k) ==
    IF k > Len(w) THEN 0
    ELSE (w[k] * WeightMod(k, m) + ResidueFrom(w, m, k + 1)) % m

Residue(w, m) == ResidueFrom(w, m, 1)

\* C22: from the default dial, after any sequence of move_position calls
\* current_position is (50 + sum of the Right steps - sum of the Left steps)
\* modulo 100, a position in 0 .. size - 1. (The two sums are kept exactly;
\* the difference is taken modulo 100 from their residues.)
C22_PositionIsNetRotation ==
    turn # <<>> =>
        /\ dial.size = 100
        /\ dial.current_position \in 0 .. dial.size - 1
        /\ dial.current_position
              = (50 + Residue(turn.rights, 100) + 100 - Residue(turn.lefts, 100)) % 100

\* Three moves, left and right, that sum to more than a u64 holds on one
\* side, the last of them past position 0.
C22_Witness ==
    /\ turn # <<>>
    /\ turn.name = "move_position"
    /\ turn.moves = 3
    /\ turn.rights[5] > 0
    /\ turn.lefts # WideZero
    /\ turn.command.direction = "Left"
    /\ dial.current_position > turn.before.current_position

\* One click of the dial.
Click(p, direction, size) ==
    IF direction = "Right" THEN (p + 1) % size ELSE (p + size - 1) % size

\* Where k single clicks from p end: the first half of them, then the rest.
\* (The position in between is bound as a set element, so that TLC computes
\* it once.)
RECURSIVE AfterClicks(_, _, _, _)
AfterClicks(p, direction, size, k) ==
    IF k = 0 THEN p
    ELSE IF k = 1 THEN Click(p, direction, size)
    ELSE CHOOSE r \in
            { AfterClicks(q, direction, size, h[2]) :
                q \in { AfterClicks(p, direction, size, k \div 2) },
                h \in { <<k \div 2, k - k \div 2>> } } : TRUE

\* The clicks that land on 0 when the dial is turned k clicks from p, one
\* click at a time: those of the first half of the clicks and those of the
\* rest, which start where the first half ended.
RECURSIVE Clicks(_, _, _, _)
Clicks(p, direction, size, k) ==
    IF k = 0 THEN 0
    ELSE IF k = 1 THEN (IF Click(p, direction, size) = 0 THEN 1 ELSE 0)
    ELSE CHOOSE c \in
            { Clicks(p, direction, size, h[1]) + Clicks(q, direction, size, h[2]) :
                q \in { AfterClicks(p, direction, size, k \div 2) },
                h \in { <<k \div 2, k - k \div 2>> } } : TRUE

\* a * m + r for a u64 a and small m, r: five limbs wide.
WideTimesPlus(a, m, r) ==
    LET s1 == a[1] * m + r
        s2 == a[2] * m + s1 \div Base
        s3 == a[3] * m + s2 \div Base
        s4 == a[4] * m + s3 \div Base
    IN  <<s1 % Base, s2 % Base, s3 % Base, s4 % Base, s4 \div Base>>

\* A step count below 2^16.
IsFewSteps(n) == n[2] = 0 /\ n[3] = 0 /\ n[4] = 0

\* The clicks on 0 of a whole rotation: a full turn of size clicks comes back
\* to where it started and passes 0 once, so steps = turns * size + rest
\* clicks land on 0 turns times and then as the last rest clicks do. A count
\* below 2^16 is clicked through from the first click to the last.
ClicksOnZero(self, command) ==
    IF IsFewSteps(command.steps)
    THEN u64_from(Clicks(self.current_position, command.direction, self.size,
                         command.steps[1]))
    ELSE LET turns == CHOOSE q \in { u64_div(command.steps, self.size).quot } : TRUE
             rest  == CHOOSE r \in 0 .. self.size - 1 :
                         WideTimesPlus(turns, self.size, r) = command.steps \o <<0>>
         IN  u64_add(turns,
                     u64_from(Clicks(self.current_position, command.direction,
                                     self.size, rest))).value

\* C23, the state part: count_zeros returns the number of clicks on 0.
C23_ZerosAreClicksOnZero ==
    (turn # <<>> /\ turn.name = "count_zeros") =>
        /\ turn.zeros.kind = "value"
        /\ turn.zeros.value = ClicksOnZero(dial, turn.command)

\* C23, the step part: count_zeros leaves the dial as it is.
C23_DialUntouched ==
    (turn' # <<>> /\ turn'.name = "count_zeros") => dial' = dial

\* C23: for every position and every command count_zeros returns the number
\* of single clicks that land on 0 when the rotation is made one click at a
\* time (the last click included, the starting position not), and it leaves
\* the dial unchanged.
C23_CountZerosCountsClicks ==
    [] C23_ZerosAreClicksOnZero /\ [][C23_DialUntouched]_vars

\* ======================================================== day_5: the ranges
\* Range::new: the closed interval [min, max].
Range_new(min, max) == [min |-> min, max |-> max]

\* Range::is_overlapping
Range_is_overlapping(self, other) == self.max >= other.min /\ self.min <= other.max

\* Mutant: the merged range ends where the second one ends.
Range_merge_ends_with_other(self, other) ==
    IF Range_is_overlapping(self, other)
    THEN [some  |-> TRUE,
          value |-> Range_new(IF self.min <= other.min THEN self.min ELSE other.min,
                              other.max)]
    ELSE [some |-> FALSE, value |-> self]

\* Range::merge: Some(union) of two overlapping ranges, None otherwise.
Range_merge(self, other) ==
    IF Range_is_overlapping(self, other)
    THEN [some  |-> TRUE,
          value |-> Range_new(IF self.min <= other.min THEN self.min ELSE other.min,
                              IF self.max >= other.max THEN self.max ELSE other.max)]
    ELSE [some |-> FALSE, value |-> self]

\* impl Ord for Range: (self.min, self.max).cmp(&(other.min, other.max)),
\* here as "self is not greater than other".
Range_le(self, other) ==
    self.min < other.min \/ (self.min = other.min /\ self.max <= other.max)

\* self.0.sort(): ascending by Ord, equal ranges in their given order.
RECURSIVE insert_range(_, _)
insert_range(v, e) ==
    IF v = <<>> THEN <<e>>
    ELSE IF Range_le(v[Len(v)], e) THEN Append(v, e)
    ELSE Append(insert_range(SubSeq(v, 1, Len(v) - 1), e), v[Len(v)])

RECURSIVE sort_ranges(_)
sort_ranges(v) ==
    IF v = <<>> THEN <<>>
    ELSE insert_range(sort_ranges(SubSeq(v, 1, Len(v) - 1)), v[Len(v)])

\* The for loop of merge_overlapping from index k on (1-based), and the
\* merged.push(current) behind it.
RECURSIVE sweep(_, _, _, _)
sweep(v, k, current, merged) ==
    IF k > Len(v) THEN Append(merged, current)
    ELSE LET m == Range_merge(current, v[k])
         IN  IF m.some
             THEN sweep(v, k + 1, m.value, merged)
             ELSE sweep(v, k + 1, v[k], Append(merged, current))

\* MultipleRanges::merge_overlapping: self.0 after the call.
merge_overlapping(v) ==
    IF v = <<>> THEN v
    ELSE LET sorted == sort_ranges(v)
         IN  sweep(sorted, 2, sorted[1], <<>>)

\* ------------------------------------------------------------ SpecRanges
\* Longest vector of ranges and largest bound of a range.
MaxRanges == 3
MaxValue == 3

\* The ranges with min <= max.
RangePool ==
    { r \in { Range_new(a, b) : a \in 0 .. MaxValue, b \in 0 .. MaxValue } :
        r.min <= r.max }

\* No call of merge_overlapping made yet (no vector of the pool: min > max).
NotGiven == <<Range_new(1, 0)>>

\* MultipleRanges::new(ranges)
InitRanges ==
    /\ ranges \in UNION { [1 .. n -> RangePool] : n \in 0 .. MaxRanges }
    /\ given = NotGiven
    /\ Day8Idle
    /\ DialIdle
    /\ LabIdle

\* ranges.merge_overlapping()
MergeOverlapping ==
    /\ given' = ranges
    /\ ranges' = merge_overlapping(ranges)
    /\ UNCHANGED <<ufVars, driverVars, dialVars, labVars>>

NextRanges == MergeOverlapping

SpecRanges == InitRanges /\ [][NextRanges]_vars

\* ------------------------------------------------------------ claims: the ranges
\* The values of a range and of a vector of ranges.
ValuesOf(r) == r.min .. r.max

ValuesIn(v) == UNION { ValuesOf(v[k]) : k \in 1 .. Len(v) }

\* C24, the state part: after merge_overlapping the stored ranges are pairwise
\* disjoint and sorted by (min, max), and hold the values the vector held
\* before the call, no more and no fewer.
C24_DisjointSortedSameValues ==
    given # NotGiven =>
        /\ \A a \in 1 .. Len(ranges), b \in 1 .. Len(ranges) :
              a # b => ValuesOf(ranges[a]) \cap ValuesOf(ranges[b]) = {}
        /\ \A k \in 1 .. Len(ranges) - 1 :
              \/ ranges[k].min < ranges[k + 1].min
              \/ ranges[k].min = ranges[k + 1].min /\ ranges[k].max <= ranges[k + 1].max
        /\ \A k \in 1 .. Len(ranges) : ranges[k].min <= ranges[k].max
        /\ ValuesIn(ranges) = ValuesIn(given)

\* C24, the step part: a further call changes nothing.
C24_SecondCallChangesNothing ==
    given # NotGiven => ranges' = ranges

\* C24: after merge_overlapping on ranges with min <= max the stored ranges
\* are pairwise disjoint, sorted by (min, max), and contain exactly the values
\* the ranges contained before the call; calling it again changes nothing.
C24_MergeOverlapping ==
    [] C24_DisjointSortedSameValues /\ [][C24_SecondCallChangesNothing]_vars

\* Three unsorted ranges, one of them inside another, merged into two.
C24_Witness ==
    /\ given # NotGiven
    /\ Len(given) = 3
    /\ Len(ranges) = 2
    /\ given # ranges
    /\ given[1].min > given[2].min
    /\ \E a \in 1 .. 3, b \in 1 .. 3 :
          given[a].min < given[b].min /\ given[b].max < given[a].max

\* ======================================================== day_7: the beams
\* Rows are Vec, indexed from 0: a row is a function on 0 .. width - 1.
Width(row) == Cardinality(DOMAIN row)

\* initiate_beams: a beam under every starter.
initiate_beams(input) ==
    [i \in DOMAIN input |-> IF input[i] = "Starter" THEN "Beam" ELSE "Empty"]

\* The body of the for loop of process_beams_part_1 on the window (w, w + 1):
\* st is [beams, count_splits].
part_1_window(splitters, st, w) ==
    LET left == IF st.beams[w] = "Beam" /\ splitters[w] = "Splitter"
                THEN [st EXCEPT !.beams[w] = "Empty", !.beams[w + 1] = "Beam"]
                ELSE st
    IN  IF left.beams[w + 1] = "Beam" /\ splitters[w + 1] = "Splitter"
        THEN [left EXCEPT !.beams[w] = "Beam", !.count_splits = @ + 1]
        ELSE left

\* The windows from w on, in order.
RECURSIVE part_1_windows(_, _, _)
part_1_windows(splitters, st, w) ==
    IF w + 1 >= Width(st.beams) \/ w + 1 >= Width(splitters) THEN st
    ELSE \* the window is bound as a set element: TLC computes it once
         CHOOSE r \in { part_1_windows(splitters, t, w + 1) :
                          t \in { part_1_window(splitters, st, w) } } : TRUE

\* process_beams_part_1: beams and count_splits after the call.
process_beams_part_1(splitters, beams, count_splits) ==
    part_1_windows(splitters, [beams |-> beams, count_splits |-> count_splits], 0)

\* The body of the for loop of process_beams_part_2 on the window (w, w + 1).
part_2_window(splitters, count, w) ==
    LET left == IF count[w] > 0 /\ splitters[w] = "Splitter"
                THEN [count EXCEPT ![w + 1] = count[w + 1] + count[w], ![w] = 0]
                ELSE count
    IN  IF left[w + 1] > 0 /\ splitters[w + 1] = "Splitter"
        THEN [left EXCEPT ![w] = left[w] + left[w + 1]]
        ELSE left

RECURSIVE part_2_windows(_, _, _)
part_2_windows(splitters, count, w) ==
    IF w + 1 >= Width(count) \/ w + 1 >= Width(splitters) THEN count
    ELSE CHOOSE r \in { part_2_windows(splitters, t, w + 1) :
                          t \in { part_2_window(splitters, count, w) } } : TRUE

\* process_beams_part_2: count after the call. The counts of the rows
\* modelled stay far below the u64 range.
process_beams_part_2(splitters, count) == part_2_windows(splitters, count, 0)

\* ------------------------------------------------------------ SpecLab
\* Widest row and most splitter rows of an input.
MaxWidth == 4
MaxRows == 2

Columns(width) == 0 .. width - 1

NoEntry == [splitters |-> <<>>, beams |-> <<>>, count_splits |-> 0, count |-> <<>>]

\* solution_part_1 / solution_part_2 up to the first splitter row: the start
\* row parsed, the beams (part 1) or the timeline counts (part 2) set up.
InitLab ==
    /\ \E width \in 1 .. MaxWidth, part \in {1, 2} :
          \E start \in [Columns(width) -> {"Starter", "Empty"}] :
              lab = [part         |-> part,
                     beams        |-> initiate_beams(start),
                     count_splits |-> 0,
                     count        |-> [i \in Columns(width) |->
                                          IF initiate_beams(start)[i] = "Beam"
                                          THEN 1 ELSE 0],
                     rows         |-> 0]
    /\ entry = NoEntry
    /\ Day8Idle
    /\ DialIdle
    /\ RangesIdle

\* process_beams_part_1(&splitter, &mut beams, &mut count_splits) on the
\* next splitter row of the input.
ProcessBeamsPart1 ==
    /\ lab.part = 1
    /\ lab.rows < MaxRows
    /\ \E splitters \in [DOMAIN lab.beams -> {"Splitter", "Empty"}] :
          \E st \in { process_beams_part_1(splitters, lab.beams, lab.count_splits) } :
              /\ entry' = [splitters |-> splitters, beams |-> lab.beams,
                           count_splits |-> lab.count_splits, count |-> lab.count]
              /\ lab' = [lab EXCEPT !.beams = st.beams,
                                    !.count_splits = st.count_splits,
                                    !.rows = @ + 1]
    /\ UNCHANGED <<ufVars, driverVars, dialVars, rangesVars>>

\* process_beams_part_2(&splitter, &mut count) on the next splitter row.
ProcessBeamsPart2 ==
    /\ lab.part = 2
    /\ lab.rows < MaxRows
    /\ \E splitters \in [DOMAIN lab.count -> {"Splitter", "Empty"}] :
          /\ entry' = [splitters |-> splitters, beams |-> lab.beams,
                       count_splits |-> lab.count_splits, count |-> lab.count]
          /\ lab' = [lab EXCEPT !.count = process_beams_part_2(splitters, lab.count),
                                !.rows = @ + 1]
    /\ UNCHANGED <<ufVars, driverVars, dialVars, rangesVars>>

NextLab == ProcessBeamsPart1 \/ ProcessBeamsPart2

SpecLab == InitLab /\ [][NextLab]_vars

\* ------------------------------------------------------------ claims: the beams
\* The columns where a beam of the row on entry meets a splitter.
SplitColumns ==
    { i \in DOMAIN entry.beams :
        entry.beams[i] = "Beam" /\ entry.splitters[i] = "Splitter" }

\* C25: process_beams_part_1 adds to count_splits one for every column that
\* holds a beam on entry and a splitter; for each such column i the row
\* after the call has a beam at each of i - 1 and i + 1 that is inside the row
\* and none at i (unless a splitter next to i sends one there); a beam on a
\* column without a splitter stays where it is.
C25_SplitsCountedAndSpread ==
    (entry # NoEntry /\ lab.part = 1) =>
        /\ lab.count_splits = entry.count_splits + Cardinality(SplitColumns)
        /\ \A i \in SplitColumns :
              /\ i - 1 \in DOMAIN lab.beams => lab.beams[i - 1] = "Beam"
              /\ i + 1 \in DOMAIN lab.beams => lab.beams[i + 1] = "Beam"
              /\ (i - 1 \notin SplitColumns /\ i + 1 \notin SplitColumns)
                    => lab.beams[i] = "Empty"
        /\ \A i \in DOMAIN lab.beams :
              (entry.beams[i] = "Beam" /\ entry.splitters[i] = "Empty")
                  => lab.beams[i] = "Beam"

\* The timelines a column receives from the splitters next to it.
Transferred(i) ==
    (IF i - 1 \in DOMAIN entry.count /\ entry.splitters[i - 1] = "Splitter"
     THEN entry.count[i - 1] ELSE 0)
    + (IF i + 1 \in DOMAIN entry.count /\ entry.splitters[i + 1] = "Splitter"
       THEN entry.count[i + 1] ELSE 0)

\* C26: process_beams_part_2 moves the timelines count[i] of every column i
\* with a splitter to both i - 1 and i + 1 and leaves none of them at i; a
\* column without a splitter keeps its own; every column gains what the
\* splitters next to it hand over, and nothing else.
C26_TimelinesMoveToNeighbours ==
    (entry # NoEntry /\ lab.part = 2) =>
        \A i \in DOMAIN lab.count :
            lab.count[i] = (IF entry.splitters[i] = "Splitter" THEN 0 ELSE entry.count[i])
                           + Transferred(i)

====
